---- MODULE Spec2Model ----
(***************************************************************************)
(* Timeline Media Sorter: the custom event resolution engine (class         *)
(* EventsResolver and class Utils of src/#TimelineMediaSorter.js) and the  *)
(* run of the sorter over a folder (class TimelineMediaSorter).            *)
(*                                                                         *)
(* A JavaScript string is a sequence of one-character strings, so that     *)
(* split, includes, replace, match and parseInt are modelled by what they  *)
(* do to the characters.  A Date is a record [day, ms]: the number of the  *)
(* local calendar day (days since 0001-01-01) and the millisecond of that  *)
(* day; daylight saving shifts are not modelled.                           *)
(***************************************************************************)
EXTENDS Integers, Sequences, FiniteSets, TLC

VARIABLES
    CUSTOM_EVENTS_DATES,   \* TimelineMediaSorterSettings.CUSTOM_EVENTS_DATES
    date,                  \* the argument of the last getCustomEventMatch call
    customEvents,          \* the table #getCustomEvents built in that call
    result,                \* what the call returned (or that it threw)
    files,                 \* the files below rootPath
    dirs,                  \* the directories below rootPath
    files0,                \* the files when the run started
    dirs0,                 \* the directories when the run started
    phase,                 \* where the run of sort() is
    allFiles,              \* #organizeFiles: the scanned files not yet processed
    todo,                  \* #deleteEmptyDirs: the directories not yet looked at
    filePath,              \* the file of the last iteration of #organizeFiles
    targetDir,             \* the targetDir of that iteration
    outcome,               \* how that iteration ended
    movedFilesLength,      \* the counters of TimelineMediaSorter
    skippedFilesLength,
    deletedFilesLength,
    builds,                \* the runs of #getCustomEvents during the run
    ioErrors               \* the file system calls that failed during the run

resolverVars == <<CUSTOM_EVENTS_DATES, date, customEvents, result>>

sorterVars ==
    <<files, dirs, files0, dirs0, phase, allFiles, todo, filePath, targetDir, outcome,
      movedFilesLength, skippedFilesLength, deletedFilesLength, builds, ioErrors>>

vars == <<resolverVars, sorterVars>>

(***************************************************************************)
(* null.  parseInt(..) || null never yields 0, and JavaScript coerces null *)
(* to 0 in arithmetic and in relational comparison, so null is 0 here.     *)
(***************************************************************************)
Null == 0

exists(value) == value # Null

-----------------------------------------------------------------------------
(* Strings *)

Digits == {"0", "1", "2", "3", "4", "5", "6", "7", "8", "9"}

DigitChars == <<"0", "1", "2", "3", "4", "5", "6", "7", "8", "9">>

DigitVal(c) == (CHOOSE i \in 1..10 : DigitChars[i] = c) - 1

\* String.prototype.includes for a one-character needle.
Includes(str, c) == \E i \in 1..Len(str) : str[i] = c

\* String.prototype.indexOf for a one-character needle, 1-based; 0 when absent.
IndexOf(str, c) ==
    IF Includes(str, c)
    THEN CHOOSE i \in 1..Len(str) : str[i] = c /\ \A j \in 1..(i - 1) : str[j] # c
    ELSE 0

\* str.replace(c, ''): removes the first occurrence only.
RemoveFirst(str, c) ==
    LET i == IndexOf(str, c)
    IN  IF i = 0 THEN str
        ELSE SubSeq(str, 1, i - 1) \o SubSeq(str, i + 1, Len(str))

RECURSIVE SplitAll(_, _)
\* str.split(c): every piece, the empty ones included.
SplitAll(str, c) ==
    LET i == IndexOf(str, c)
    IN  IF i = 0 THEN <<str>>
        ELSE <<SubSeq(str, 1, i - 1)>> \o SplitAll(SubSeq(str, i + 1, Len(str)), c)

\* str.split(c, limit): the first `limit` pieces, the rest dropped.
Split(str, c, limit) ==
    LET all == SplitAll(str, c)
    IN  IF Len(all) <= limit THEN all ELSE SubSeq(all, 1, limit)

\* An element of a destructured array: absent positions are undefined, which
\* Array.prototype.join prints as the empty string.
Piece(pieces, i) == IF i <= Len(pieces) THEN pieces[i] ELSE <<>>

RECURSIVE TrimLeft(_)
TrimLeft(str) ==
    IF str # <<>> /\ Head(str) = " " THEN TrimLeft(Tail(str)) ELSE str

RECURSIVE CollapseSpaces(_)
\* str.replace(/\s+/g, ' ')
CollapseSpaces(str) ==
    IF str = <<>> THEN <<>>
    ELSE IF Head(str) = " "
         THEN <<" ">> \o CollapseSpaces(TrimLeft(str))
         ELSE <<Head(str)>> \o CollapseSpaces(Tail(str))

\* clearStr of #getPreparedEvents: str?.replace(/\s+/g, ' ').trim()
clearStr(str) ==
    LET c == TrimLeft(CollapseSpaces(str))
    IN  IF c # <<>> /\ c[Len(c)] = " " THEN SubSeq(c, 1, Len(c) - 1) ELSE c

RECURSIVE DigitRun(_)
\* The longest prefix of digits.
DigitRun(str) ==
    IF str # <<>> /\ Head(str) \in Digits
    THEN <<Head(str)>> \o DigitRun(Tail(str))
    ELSE <<>>

RECURSIVE Decimal(_, _)
Decimal(digits, acc) ==
    IF digits = <<>> THEN acc
    ELSE Decimal(Tail(digits), 10 * acc + DigitVal(Head(digits)))

\* parseInt(str): leading white space, an optional sign, then the digits up
\* to the first other character; NaN when there is no digit.
parseInt(str) ==
    LET s    == TrimLeft(str)
        neg  == s # <<>> /\ Head(s) = "-"
        body == IF s # <<>> /\ Head(s) \in {"-", "+"} THEN Tail(s) ELSE s
        run  == DigitRun(body)
    IN  IF run = <<>> THEN [nan |-> TRUE, val |-> 0]
        ELSE [nan |-> FALSE,
              val |-> IF neg THEN 0 - Decimal(run, 0) ELSE Decimal(run, 0)]

\* parseInt(x) || null: NaN and 0 are falsy.
OrNull(p) == IF p.nan \/ p.val = 0 THEN Null ELSE p.val

RECURSIVE MatchFourDigits(_)
\* str.match(/\d{4}/g): the non-overlapping groups of four digits, left to
\* right (the empty sequence stands for the null of no match).
MatchFourDigits(str) ==
    IF Len(str) < 4 THEN <<>>
    ELSE IF \A i \in 1..4 : str[i] \in Digits
         THEN <<SubSeq(str, 1, 4)>> \o MatchFourDigits(SubSeq(str, 5, Len(str)))
         ELSE MatchFourDigits(Tail(str))

-----------------------------------------------------------------------------
(* Dates *)

IsLeap(y) == (y % 4 = 0 /\ y % 100 # 0) \/ y % 400 = 0

DaysInMonth(y, m) ==
    IF m = 2 THEN (IF IsLeap(y) THEN 29 ELSE 28)
    ELSE IF m \in {4, 6, 9, 11} THEN 30 ELSE 31

RECURSIVE DaysBeforeMonth(_, _)
DaysBeforeMonth(y, m) ==
    IF m <= 1 THEN 0 ELSE DaysBeforeMonth(y, m - 1) + DaysInMonth(y, m - 1)

\* Days from 0001-01-01 to the first of January of year y.
DaysBeforeYear(y) ==
    365 * (y - 1) + ((y - 1) \div 4) - ((y - 1) \div 100) + ((y - 1) \div 400)

\* The local day number of new Date(year, monthIndex, day): a year of 0..99
\* means 1900 + year, a month index outside 0..11 carries into the year, and
\* a day outside the month carries into the neighbouring months.
MakeDay(year, monthIndex, day) ==
    LET yy == IF year >= 0 /\ year <= 99 THEN 1900 + year ELSE year
        y  == yy + (monthIndex \div 12)
        m  == (monthIndex % 12) + 1
    IN  DaysBeforeYear(y) + DaysBeforeMonth(y, m) + day - 1

getFullYear(d) ==
    CHOOSE y \in (d.day \div 366)..((d.day \div 365) + 1) :
        DaysBeforeYear(y) <= d.day /\ d.day < DaysBeforeYear(y + 1)

\* date.getMonth() + 1
MonthOf(d) ==
    LET y   == getFullYear(d)
        doy == d.day - DaysBeforeYear(y)
    IN  CHOOSE m \in 1..12 :
            DaysBeforeMonth(y, m) <= doy /\ doy < DaysBeforeMonth(y, m) + DaysInMonth(y, m)

getDate(d) ==
    LET y == getFullYear(d)
    IN  d.day - DaysBeforeYear(y) - DaysBeforeMonth(y, MonthOf(d)) + 1

\* Utils.normalizedStart: new Date(year, month - 1, day), setHours(0, 0, 0, 0)
normalizedStart(year, month, day) ==
    [day |-> MakeDay(year, month - 1, day), ms |-> 0]

\* Utils.normalizedEnd: new Date(year, month - 1, day), setHours(23, 59, 59, 999)
normalizedEnd(year, month, day) ==
    [day |-> MakeDay(year, month - 1, day),
     ms  |-> ((23 * 60 + 59) * 60 + 59) * 1000 + 999]

\* a <= b on Dates (the comparison of their time values).
DateLE(a, b) == a.day < b.day \/ (a.day = b.day /\ a.ms <= b.ms)

\* Mutant of inRange: the bounds excluded.
inRange_exclusive(start, value, end) ==
    IF exists(start) /\ exists(end) THEN value > start /\ value < end
    ELSE IF exists(start) THEN value > start
    ELSE IF exists(end) THEN value < end
    ELSE TRUE

\* Utils.inRange
inRange(start, value, end) ==
    IF exists(start) /\ exists(end) THEN value >= start /\ value <= end
    ELSE IF exists(start) THEN value >= start
    ELSE IF exists(end) THEN value <= end
    ELSE TRUE

-----------------------------------------------------------------------------
(* EventsResolver: building the event table *)

\* #getPreparedEvents.  An entry of CUSTOM_EVENTS_DATES is [name, isArray,
\* dates]: dates holds the strings of an array value, or the one string of a
\* string value.  An empty string or array is skipped (!dates?.length).
RECURSIVE getPreparedEvents(_)
getPreparedEvents(entries) ==
    IF entries = <<>> THEN <<>>
    ELSE LET e    == Head(entries)
             skip == IF e.isArray THEN e.dates = <<>> ELSE e.dates[1] = <<>>
             own  == [i \in 1..Len(e.dates) |->
                        [name |-> clearStr(e.name), rawDates |-> clearStr(e.dates[i])]]
         IN  (IF skip THEN <<>> ELSE own) \o getPreparedEvents(Tail(entries))

\* #prepareDates.  threw: the TypeError of yearPart.match on an undefined
\* yearPart, or of destructuring the null that match returns.
prepareDates(rawDates) ==
    IF Includes(rawDates, "_") THEN
        LET pieces == Split(rawDates, ".", 3)
            years  == IF Len(pieces) < 3 THEN <<>> ELSE MatchFourDigits(pieces[3])
            dm     == Piece(pieces, 1) \o <<".">> \o Piece(pieces, 2) \o <<".">>
        IN  IF years = <<>>
            THEN [threw |-> TRUE, startRaw |-> <<>>, endRaw |-> <<>>]
            ELSE [threw |-> FALSE,
                  startRaw |-> dm \o Piece(years, 1),
                  endRaw   |-> dm \o Piece(years, 2)]
    ELSE IF Includes(rawDates, ">") THEN
        [threw |-> FALSE,
         startRaw |-> RemoveFirst(rawDates, ">"),
         endRaw   |-> Split(rawDates, ">", 2)[1] \o <<"x">>]
    ELSE IF Includes(rawDates, "<") THEN
        [threw |-> FALSE,
         startRaw |-> Split(rawDates, "<", 2)[1] \o <<"x">>,
         endRaw   |-> RemoveFirst(rawDates, "<")]
    ELSE IF Includes(rawDates, "-") THEN
        LET pieces == Split(rawDates, "-", 2)
        IN  [threw |-> FALSE, startRaw |-> pieces[1], endRaw |-> pieces[2]]
    ELSE [threw |-> FALSE, startRaw |-> rawDates, endRaw |-> rawDates]

\* Mutant of parseDate: the month read before the day.
parseDate_monthFirst(rawDate) ==
    LET pieces == Split(rawDate, ".", 3)
    IN  [day   |-> OrNull(parseInt(Piece(pieces, 2))),
         month |-> OrNull(parseInt(Piece(pieces, 1))),
         year  |-> OrNull(parseInt(Piece(pieces, 3)))]

\* #parseDate
parseDate(rawDate) ==
    LET pieces == Split(rawDate, ".", 3)
    IN  [day   |-> OrNull(parseInt(Piece(pieces, 1))),
         month |-> OrNull(parseInt(Piece(pieces, 2))),
         year  |-> OrNull(parseInt(Piece(pieces, 3)))]

\* recRegex.test(rawDates), recRegex = /[><_]/
recRegexTest(rawDates) ==
    Includes(rawDates, ">") \/ Includes(rawDates, "<") \/ Includes(rawDates, "_")

isEmptyDate(d) == ~exists(d.day) /\ ~exists(d.month) /\ ~exists(d.year)

isFullDate(d) == exists(d.day) /\ exists(d.month) /\ exists(d.year)

lacksYear(d) == exists(d.day) /\ exists(d.month) /\ ~exists(d.year)

isSingleDay(start, end) ==
    /\ exists(start.day)
    /\ exists(start.month)
    /\ exists(end.day)
    /\ exists(end.month)
    /\ start.day = end.day
    /\ start.month = end.month
    /\ \/ start.year = end.year
       \/ exists(start.year) /\ ~exists(end.year)
       \/ ~exists(start.year) /\ exists(end.year)

\* Mutant of classify: singleDay from the two dates alone, whatever the
\* markers of the string.
classify_singleDayByDates(name, rawDates, start, end) ==
    LET singleDay   == isSingleDay(start, end)
        recurring   == recRegexTest(rawDates) \/ lacksYear(start) \/ lacksYear(end)
        fixedRange  == ~recurring /\ isFullDate(start) /\ isFullDate(end)
        crossesYear ==
            /\ ~singleDay
            /\ \/ exists(start.year) /\ exists(end.year) /\ start.year < end.year
               \/ exists(start.month) /\ exists(end.month) /\ start.month > end.month
               \/ /\ exists(start.month) /\ exists(end.month)
                  /\ exists(start.day) /\ exists(end.day)
                  /\ start.month = end.month /\ start.day > end.day
    IN  [threw |-> FALSE,
         keep |-> ~(isEmptyDate(start) /\ isEmptyDate(end)),
         name |-> name, start |-> start, end |-> end,
         fixedRange |-> fixedRange, singleDay |-> singleDay,
         recurring |-> recurring, crossesYear |-> crossesYear]

\* The flags #getCustomEvents derives from a parsed start and end.
classify(name, rawDates, start, end) ==
    LET singleDay   == isSingleDay(start, end) \/ recRegexTest(rawDates)
        recurring   == recRegexTest(rawDates) \/ lacksYear(start) \/ lacksYear(end)
        fixedRange  == ~recurring /\ isFullDate(start) /\ isFullDate(end)
        crossesYear ==
            /\ ~singleDay
            /\ \/ exists(start.year) /\ exists(end.year) /\ start.year < end.year
               \/ exists(start.month) /\ exists(end.month) /\ start.month > end.month
               \/ /\ exists(start.month) /\ exists(end.month)
                  /\ exists(start.day) /\ exists(end.day)
                  /\ start.month = end.month /\ start.day > end.day
    IN  [threw |-> FALSE,
         keep |-> ~(isEmptyDate(start) /\ isEmptyDate(end)),
         name |-> name, start |-> start, end |-> end,
         fixedRange |-> fixedRange, singleDay |-> singleDay,
         recurring |-> recurring, crossesYear |-> crossesYear]

\* The callback of the map in #getCustomEvents.  threw: #prepareDates threw;
\* keep = FALSE is the `return;` that filter(Boolean) drops.
buildEvent(name, rawDates) ==
    LET prep == prepareDates(rawDates)
    IN  IF prep.threw
        THEN [threw |-> TRUE, keep |-> FALSE, name |-> name,
              start |-> parseDate(<<>>), end |-> parseDate(<<>>),
              fixedRange |-> FALSE, singleDay |-> FALSE,
              recurring |-> FALSE, crossesYear |-> FALSE]
        ELSE classify(name, rawDates, parseDate(prep.startRaw), parseDate(prep.endRaw))

\* Mutant of categorizeEvent: "only an end year" and "only a start year" of
\* the recurring single-day events exchanged.
categorizeEvent_startEndSwapped(event) ==
    LET hasStartYear == exists(event.start.year)
        hasEndYear   == exists(event.end.year)
        singleDay    == event.singleDay
    IN  IF ~event.recurring /\ event.fixedRange /\ singleDay THEN 1
        ELSE IF ~event.recurring /\ event.fixedRange /\ ~singleDay THEN 2
        ELSE IF ~event.recurring THEN 999
        ELSE IF singleDay /\ hasStartYear /\ hasEndYear THEN 3
        ELSE IF singleDay /\ hasStartYear /\ ~hasEndYear THEN 4
        ELSE IF singleDay /\ ~hasStartYear /\ hasEndYear THEN 5
        ELSE IF ~singleDay /\ hasStartYear /\ hasEndYear THEN 6
        ELSE IF ~singleDay /\ ~hasStartYear /\ hasEndYear THEN 7
        ELSE IF ~singleDay /\ hasStartYear /\ ~hasEndYear THEN 8
        ELSE IF singleDay /\ ~hasStartYear /\ ~hasEndYear THEN 9
        ELSE IF ~singleDay /\ ~hasStartYear /\ ~hasEndYear THEN 10
        ELSE 999

\* #categorizeEvent
categorizeEvent(event) ==
    LET hasStartYear == exists(event.start.year)
        hasEndYear   == exists(event.end.year)
        singleDay    == event.singleDay
    IN  IF ~event.recurring /\ event.fixedRange /\ singleDay THEN 1
        ELSE IF ~event.recurring /\ event.fixedRange /\ ~singleDay THEN 2
        ELSE IF ~event.recurring THEN 999
        ELSE IF singleDay /\ hasStartYear /\ hasEndYear THEN 3
        ELSE IF singleDay /\ ~hasStartYear /\ hasEndYear THEN 4
        ELSE IF singleDay /\ hasStartYear /\ ~hasEndYear THEN 5
        ELSE IF ~singleDay /\ hasStartYear /\ hasEndYear THEN 6
        ELSE IF ~singleDay /\ ~hasStartYear /\ hasEndYear THEN 7
        ELSE IF ~singleDay /\ hasStartYear /\ ~hasEndYear THEN 8
        ELSE IF singleDay /\ ~hasStartYear /\ ~hasEndYear THEN 9
        ELSE IF ~singleDay /\ ~hasStartYear /\ ~hasEndYear THEN 10
        ELSE 999

\* Mutant of compareEvents: the operands of the subtraction swapped.
compareEvents_swapped(a, b) == categorizeEvent(b) - categorizeEvent(a)

\* The comparator of #sortEvents: categorizeEvent(a) - categorizeEvent(b).
compareEvents(a, b) == categorizeEvent(a) - categorizeEvent(b)

RECURSIVE InsertEvent_beforeEqual(_, _)
\* Mutant of InsertEvent: e goes in front of the events that compare equal
\* to it (a sort that is not stable).
InsertEvent_beforeEqual(sorted, e) ==
    IF sorted = <<>> THEN <<e>>
    ELSE IF compareEvents(Head(sorted), e) < 0
         THEN <<Head(sorted)>> \o InsertEvent_beforeEqual(Tail(sorted), e)
         ELSE <<e>> \o sorted

RECURSIVE InsertEvent(_, _)
\* e goes behind every event that does not compare greater than it.
InsertEvent(sorted, e) ==
    IF sorted = <<>> THEN <<e>>
    ELSE IF compareEvents(Head(sorted), e) <= 0
         THEN <<Head(sorted)>> \o InsertEvent(Tail(sorted), e)
         ELSE <<e>> \o sorted

RECURSIVE StableSort(_, _)
StableSort(done, rest) ==
    IF rest = <<>> THEN done
    ELSE StableSort(InsertEvent(done, Head(rest)), Tail(rest))

\* Mutant of sortEvents: the events left in declaration order.
sortEvents_unsorted(events) == events

\* #sortEvents: Array.prototype.sort with the comparator; the sort of the
\* engines that run this file (private class members need Node 12 or later)
\* is stable, so events that compare equal keep their order.
sortEvents(events) == StableSort(<<>>, events)

\* .filter(Boolean) on the mapped events: the EventSpec objects that remain.
FilterKept(events) ==
    LET kept == SelectSeq(events, LAMBDA e : e.keep)
    IN  [i \in 1..Len(kept) |->
            [name |-> kept[i].name, start |-> kept[i].start, end |-> kept[i].end,
             fixedRange |-> kept[i].fixedRange, singleDay |-> kept[i].singleDay,
             recurring |-> kept[i].recurring, crossesYear |-> kept[i].crossesYear]]

\* The end of #getCustomEvents: an error thrown in the map leaves the
\* method, otherwise the events kept are sorted.
tableOf(mapped) ==
    IF \E i \in 1..Len(mapped) : mapped[i].threw
    THEN [threw |-> TRUE, events |-> <<>>]
    ELSE [threw |-> FALSE, events |-> sortEvents(FilterKept(mapped))]

\* The map of #getCustomEvents over the prepared events.
mapEvents(prepared) ==
    [i \in 1..Len(prepared) |-> buildEvent(prepared[i].name, prepared[i].rawDates)]

\* #getCustomEvents: [threw, events]
getCustomEvents(config) == tableOf(mapEvents(getPreparedEvents(config)))

-----------------------------------------------------------------------------
(* EventsResolver: matching a date *)

\* #clampYear
clampYear(baseYear, limitYear, preferHigher) ==
    IF ~exists(limitYear) THEN baseYear
    ELSE IF preferHigher
         THEN (IF baseYear >= limitYear THEN baseYear ELSE limitYear)
         ELSE (IF baseYear <= limitYear THEN baseYear ELSE limitYear)

\* date >= a && date <= b
Within(d, a, b) == DateLE(a, d) /\ DateLE(d, b)

NoMatch == [match |-> FALSE, crossedYears |-> <<>>]

\* Mutant of matchFixed: the start day excluded.
matchFixed_openStart(customEvent, d) ==
    LET start == customEvent.start
        end   == customEvent.end
    IN  IF /\ ~DateLE(d, normalizedStart(start.year, start.month, start.day))
           /\ DateLE(d, normalizedEnd(end.year, end.month, end.day))
        THEN [match |-> TRUE,
              crossedYears |-> IF customEvent.crossesYear
                               THEN <<start.year, end.year>> ELSE <<>>]
        ELSE NoMatch

\* The fixedRange branch (lines 442-453).
matchFixed(customEvent, d) ==
    LET start == customEvent.start
        end   == customEvent.end
    IN  IF Within(d, normalizedStart(start.year, start.month, start.day),
                     normalizedEnd(end.year, end.month, end.day))
        THEN [match |-> TRUE,
              crossedYears |-> IF customEvent.crossesYear
                               THEN <<start.year, end.year>> ELSE <<>>]
        ELSE NoMatch

\* The recurring singleDay branch (lines 455-460).
matchSingleDay(customEvent, d, year) ==
    IF ~(getDate(d) = customEvent.start.day /\ MonthOf(d) = customEvent.start.month)
    THEN NoMatch
    ELSE [match |-> inRange(customEvent.start.year, year, customEvent.end.year),
          crossedYears |-> <<>>]

\* The two tests of the crossesYear branch and what they push (lines 471-481).
matchWindows(d, prevStart, prevEnd, currStart, currEnd) ==
    [match |-> Within(d, prevStart, prevEnd) \/ Within(d, currStart, currEnd),
     crossedYears |->
        (IF Within(d, prevStart, prevEnd)
         THEN <<getFullYear(prevStart), getFullYear(prevEnd)>> ELSE <<>>)
        \o (IF Within(d, currStart, currEnd)
            THEN <<getFullYear(currStart), getFullYear(currEnd)>> ELSE <<>>)]

\* Mutant of matchCrossing: the current window ends in the year of the date,
\* not in the next one.
matchCrossing_noNextYear(customEvent, d, year) ==
    LET start == customEvent.start
        end   == customEvent.end
    IN  matchWindows(d,
            normalizedStart(clampYear(year - 1, start.year, TRUE), start.month, start.day),
            normalizedEnd(clampYear(year, end.year, FALSE), end.month, end.day),
            normalizedStart(clampYear(year, start.year, TRUE), start.month, start.day),
            normalizedEnd(clampYear(year, end.year, FALSE), end.month, end.day))

\* The recurring crossesYear branch (lines 464-481).
matchCrossing(customEvent, d, year) ==
    LET start == customEvent.start
        end   == customEvent.end
    IN  matchWindows(d,
            normalizedStart(clampYear(year - 1, start.year, TRUE), start.month, start.day),
            normalizedEnd(clampYear(year, end.year, FALSE), end.month, end.day),
            normalizedStart(clampYear(year, start.year, TRUE), start.month, start.day),
            normalizedEnd(clampYear(year + 1, end.year, FALSE), end.month, end.day))

\* The recurring branch of an event within one year (lines 482-489).
matchWithinYear(customEvent, d, year) ==
    [match |-> Within(d,
                   normalizedStart(year, customEvent.start.month, customEvent.start.day),
                   normalizedEnd(year, customEvent.end.month, customEvent.end.day)),
     crossedYears |-> <<>>]

\* The body of the loop of getCustomEventMatch for one event, year being
\* date.getFullYear(): [match, crossedYears].
matchInYear(customEvent, d, year) ==
    IF customEvent.fixedRange THEN matchFixed(customEvent, d)
    ELSE IF customEvent.recurring THEN
        IF customEvent.singleDay THEN matchSingleDay(customEvent, d, year)
        ELSE IF ~inRange(customEvent.start.year, year, customEvent.end.year) THEN NoMatch
        ELSE IF customEvent.crossesYear THEN matchCrossing(customEvent, d, year)
        ELSE matchWithinYear(customEvent, d, year)
    ELSE NoMatch

matchEvent(customEvent, d) == matchInYear(customEvent, d, getFullYear(d))

NullResult == [kind |-> "null"]

ThrownResult == [kind |-> "TypeError"]

\* return { name, year, recurring, crossedYears }
MatchResult(customEvent, d, crossedYears) ==
    [kind |-> "match", name |-> customEvent.name, year |-> getFullYear(d),
     recurring |-> customEvent.recurring, crossedYears |-> crossedYears]

RECURSIVE firstMatch(_, _)
\* The for loop of getCustomEventMatch over the table, and its return null.
firstMatch(events, d) ==
    IF events = <<>> THEN NullResult
    ELSE IF matchEvent(Head(events), d).match
         THEN MatchResult(Head(events), d, matchEvent(Head(events), d).crossedYears)
         ELSE firstMatch(Tail(events), d)

\* What getCustomEventMatch(date) does with the table it built: the error of
\* #getCustomEvents leaves it, otherwise the loop runs.
resultOf(table, d) ==
    IF table.threw THEN ThrownResult ELSE firstMatch(table.events, d)

\* getCustomEventMatch(date) under the configuration `config`.
getCustomEventMatch(config, d) == resultOf(getCustomEvents(config), d)

-----------------------------------------------------------------------------
(* TimelineMediaSorter: strings, paths and file names *)

\* The characters of the names of the model, in the order of their UTF-16
\* code units (the order of Array.prototype.sort and of toLowerCase).
CodeUnits ==
    <<" ", "#", "-", ".", "/", "0", "1", "2", "3", "4", "5", "6", "7", "8",
      "9", "A", "B", "C", "D", "E", "F", "G", "H", "I", "J", "K", "L", "M",
      "N", "O", "P", "Q", "R", "S", "T", "U", "V", "W", "X", "Y", "Z", "\\",
      "_", "a", "b", "c", "d", "e", "f", "g", "h", "i", "j", "k", "l", "m",
      "n", "o", "p", "q", "r", "s", "t", "u", "v", "w", "x", "y", "z", "|">>

CodeUnit(c) == CHOOSE i \in 1..Len(CodeUnits) : CodeUnits[i] = c

\* The lower case of each character: "A".."Z" moved to "a".."z", the others
\* themselves.
LowerCase ==
    [c \in {CodeUnits[i] : i \in 1..Len(CodeUnits)} |->
        IF CodeUnit(c) \in CodeUnit("A")..CodeUnit("Z")
        THEN CodeUnits[CodeUnit(c) - CodeUnit("A") + CodeUnit("a")]
        ELSE c]

\* String.prototype.toLowerCase
toLowerCase(str) == [i \in 1..Len(str) |-> LowerCase[str[i]]]

RECURSIVE StrLess(_, _)
\* a < b for two strings: the default order of Array.prototype.sort.
StrLess(a, b) ==
    IF b = <<>> THEN FALSE
    ELSE IF a = <<>> THEN TRUE
    ELSE IF Head(a) # Head(b) THEN CodeUnit(Head(a)) < CodeUnit(Head(b))
    ELSE StrLess(Tail(a), Tail(b))

\* A path is the sequence of its segments below rootPath (line 5); rootPath
\* itself is the empty sequence.
rootPath == <<>>

\* path.join on segments: the empty ones vanish.
join(segments) == SelectSeq(segments, LAMBDA seg : seg # <<>>)

RECURSIVE pathString(_)
\* The string of a path, its segments separated by path.sep.
pathString(p) ==
    IF p = <<>> THEN <<>>
    ELSE IF Len(p) = 1 THEN p[1]
    ELSE p[1] \o <<"/">> \o pathString(Tail(p))

\* path.basename, path.dirname
basename(p) == p[Len(p)]

dirname(p) == SubSeq(p, 1, Len(p) - 1)

\* path.extname of a file name: from the last "." on, nothing when there is
\* no "." or the only one is the first character.
extname(name) ==
    LET dots == {i \in 1..Len(name) : name[i] = "."}
        last == CHOOSE i \in dots : \A j \in dots : j <= i
    IN  IF dots = {} \/ last = 1 THEN <<>> ELSE SubSeq(name, last, Len(name))

\* #getFileNames
getFileNames(path) ==
    [fileName |-> basename(path), fileExt |-> toLowerCase(extname(basename(path)))]

RECURSIVE Repeat(_, _)
Repeat(c, n) == IF n = 0 THEN <<>> ELSE <<c>> \o Repeat(c, n - 1)

\* DATE_PATTERNS (lines 96-136), each regular expression as a template of
\* its characters: "y", "m", "d" a digit of the named group, "#" another
\* digit, anything else the character itself.
DATE_PATTERNS ==
    LET y4 == Repeat("y", 4)
        m2 == Repeat("m", 2)
        d2 == Repeat("d", 2)
        n2 == Repeat("#", 2)
        ymd(sep) == y4 \o sep \o m2 \o sep \o d2
        dmy(sep) == d2 \o sep \o m2 \o sep \o y4
        time(lead, sep) == lead \o n2 \o sep \o n2 \o sep \o n2
    IN  << ymd(<<"-">>) \o time(<<"_">>, <<"-">>),
           ymd(<<"-">>),
           dmy(<<"-">>) \o time(<<"_">>, <<"-">>),
           dmy(<<"-">>),
           ymd(<<".">>) \o time(<<"-">>, <<".">>),
           ymd(<<".">>),
           dmy(<<".">>) \o time(<<"-">>, <<".">>),
           dmy(<<".">>),
           ymd(<<>>) \o time(<<"_">>, <<>>),
           ymd(<<>>) >>

\* The pattern matches the characters of str from position i on.
MatchesAt(pattern, str, i) ==
    /\ i + Len(pattern) - 1 <= Len(str)
    /\ \A k \in 1..Len(pattern) :
          IF pattern[k] \in {"y", "m", "d", "#"}
          THEN str[i + k - 1] \in Digits
          ELSE str[i + k - 1] = pattern[k]

\* filename.match(pattern): the position of the leftmost match, 0 for null.
MatchIndex(pattern, str) ==
    LET hits == {i \in 1..Len(str) : MatchesAt(pattern, str, i)}
    IN  IF hits = {} THEN 0 ELSE CHOOSE i \in hits : \A j \in hits : i <= j

\* match.groups[g] of the match at position i.
Group(pattern, str, i, g) ==
    LET ks == {k \in 1..Len(pattern) : pattern[k] = g}
    IN  [n \in 1..Cardinality(ks) |->
            str[i + (CHOOSE k \in ks : \A j \in ks : k <= j) + n - 2]]

RECURSIVE parseDateWith(_, _)
\* The loop of #parseDateFromFilename over the patterns that remain.
parseDateWith(patterns, filename) ==
    IF patterns = <<>> THEN [found |-> FALSE]
    ELSE LET i == MatchIndex(Head(patterns), filename)
         IN  IF i = 0 THEN parseDateWith(Tail(patterns), filename)
             ELSE [found |-> TRUE,
                   year  |-> Group(Head(patterns), filename, i, "y"),
                   month |-> Group(Head(patterns), filename, i, "m"),
                   day   |-> Group(Head(patterns), filename, i, "d")]

\* #parseDateFromFilename: { year, month, day } as strings, or null.
parseDateFromFilename(filename) == parseDateWith(DATE_PATTERNS, filename)

-----------------------------------------------------------------------------
(* TimelineMediaSorter: where a file goes *)

\* The settings, cut down to the names the files of the model use.
IGNORED_DIRECTORIES == {<<"#", "S", "o", "r", "t", "e", "d">>,
                        <<"#", "I", "g", "n", "o", "r", "e", "d">>,
                        <<"n", "o", "d", "e", "_", "m", "o", "d", "u", "l", "e", "s">>}

IGNORED_FILES == {<<"#", "T", "i", "m", "e", "l", "i", "n", "e", "M", "e", "d", "i", "a", "S", "o", "r", "t", "e", "r", ".", "j", "s">>}

PHOTO_EXTENSIONS == {<<".", "j", "p", "g">>, <<".", "p", "n", "g">>}

VIDEO_EXTENSIONS == {<<".", "m", "p", "4">>, <<".", "m", "o", "v">>}

\* L10n.get(key) in the language "en".
L10n(key) ==
    CASE key = "winter"          -> <<"W", "i", "n", "t", "e", "r">>
      [] key = "spring"          -> <<"S", "p", "r", "i", "n", "g">>
      [] key = "summer"          -> <<"S", "u", "m", "m", "e", "r">>
      [] key = "autumn"          -> <<"A", "u", "t", "u", "m", "n">>
      [] key = "unknown"         -> <<"U", "n", "k", "n", "o", "w", "n">>
      [] key = "videoDir"        -> <<"V", "i", "d", "e", "o", "s">>
      [] key = "unknownDatesDir" -> <<"#", "U", "n", "k", "n", "o", "w", "n", " ", "D", "a", "t", "e", "s">>
      [] key = "unknownFilesDir" -> <<"#", "U", "n", "k", "n", "o", "w", "n", " ", "F", "i", "l", "e", "s">>

\* #isFileSupported
isFileSupported(fileExt) == fileExt \in PHOTO_EXTENSIONS \cup VIDEO_EXTENSIONS

\* #getSeasonName
getSeasonName(month) ==
    LET m == parseInt(month)
    IN  IF m.nan THEN L10n("unknown")
        ELSE IF m.val \in {12, 1, 2} THEN L10n("winter")
        ELSE IF m.val \in {3, 4, 5} THEN L10n("spring")
        ELSE IF m.val \in {6, 7, 8} THEN L10n("summer")
        ELSE IF m.val \in {9, 10, 11} THEN L10n("autumn")
        ELSE L10n("unknown")

RECURSIVE NumStr(_)
\* The decimal string of a number that is not negative (template literal).
NumStr(n) ==
    IF n < 10 THEN <<DigitChars[n + 1]>>
    ELSE NumStr(n \div 10) \o <<DigitChars[(n % 10) + 1]>>

RECURSIVE SplitAny(_, _)
\* str.split(/[\\/|]/): the pieces between the characters of seps.
SplitAny(str, seps) ==
    LET cuts == {i \in 1..Len(str) : str[i] \in seps}
        i    == CHOOSE c \in cuts : \A j \in cuts : c <= j
    IN  IF cuts = {} THEN <<str>>
        ELSE <<SubSeq(str, 1, i - 1)>> \o SplitAny(SubSeq(str, i + 1, Len(str)), seps)

\* Mutant of getYears: the year of the date whatever the crossed years.
getYears_dateYear(customEvent) == NumStr(customEvent.year)

\* getYears of getCustomEventPath
getYears(customEvent) ==
    IF customEvent.crossedYears # <<>>
    THEN NumStr(customEvent.crossedYears[1]) \o <<"-">> \o NumStr(customEvent.crossedYears[2])
    ELSE NumStr(customEvent.year)

\* EventsResolver.getCustomEventPath
getCustomEventPath(customEvent) ==
    LET folderNames == SplitAny(customEvent.name, {"\\", "/", "|"})
        stamped(name) == name \o <<" ">> \o getYears(customEvent)
        updatedFolderNames ==
            [idx \in 1..Len(folderNames) |->
                IF ~customEvent.recurring /\ idx = Len(folderNames)
                THEN stamped(folderNames[idx])
                ELSE folderNames[idx]]
    IN  IF customEvent.recurring
        THEN Append(updatedFolderNames, stamped(updatedFolderNames[Len(updatedFolderNames)]))
        ELSE updatedFolderNames

\* Number(str) of a string of digits (the coercion of new Date's arguments).
ToNumber(str) == Decimal(str, 0)

\* The mediaDate of #resolveKnownDateDestination (line 241).
mediaDateOf(dateInfo) ==
    normalizedStart(ToNumber(dateInfo.year), ToNumber(dateInfo.month), ToNumber(dateInfo.day))

\* #resolveKnownDateDestination, customEvent being what getCustomEventMatch
\* returned.
resolveKnownDateDestination(fileExt, dateInfo, customEvent) ==
    LET base == IF customEvent.kind = "match"
                THEN join(rootPath \o getCustomEventPath(customEvent))
                ELSE join(rootPath \o
                          <<dateInfo.year,
                            getSeasonName(dateInfo.month) \o <<" ">> \o dateInfo.year>>)
    IN  IF fileExt \in VIDEO_EXTENSIONS
        THEN join(base \o <<L10n("videoDir")>>)
        ELSE base

\* Mutant of resolveUnknownDateDestination: the directory of the file is
\* not kept.
resolveUnknownDateDestination_flat(path, supported) ==
    IF supported THEN <<L10n("unknownDatesDir")>> ELSE <<L10n("unknownFilesDir")>>

\* #resolveUnknownDateDestination; path.relative(rootPath, path.dirname(..))
\* of a path below rootPath is its directory.
resolveUnknownDateDestination(path, supported) ==
    LET folderName == IF supported THEN L10n("unknownDatesDir") ELSE L10n("unknownFilesDir")
    IN  join(rootPath \o <<folderName>> \o dirname(path))

\* #walkDir, line 309-313: the directory entry is skipped.
isIgnoredDir(entryName) ==
    \/ \E ignored \in IGNORED_DIRECTORIES : toLowerCase(ignored) = toLowerCase(entryName)
    \/ (entryName # <<>> /\ entryName[1] = ".")

\* #walkDir, line 315-317: the file entry is skipped.
isIgnoredFile(entryName) ==
    \E ignored \in IGNORED_FILES : toLowerCase(ignored) = toLowerCase(entryName)

\* #walkDir(rootPath) over the files `files`: those that no ignored directory
\* holds and whose own name is not ignored.
walkDir(fileSet) ==
    {f \in fileSet :
        /\ \A k \in 1..(Len(f) - 1) : ~isIgnoredDir(f[k])
        /\ ~isIgnoredFile(basename(f))}

RECURSIVE SortPaths(_)
\* allFiles.sort(): the paths in the order of their strings.
SortPaths(paths) ==
    IF paths = {} THEN <<>>
    ELSE LET first == CHOOSE p \in paths :
                        \A q \in paths \ {p} : StrLess(pathString(p), pathString(q))
         IN  <<first>> \o SortPaths(paths \ {first})

\* The directories a recursive mkdir of dir makes sure exist.
Prefixes(dir) == {SubSeq(dir, 1, n) : n \in 1..Len(dir)}

\* The entries of directory dir (fs.readdir): the files and directories
\* directly in it.
Entries(dir, fileSet, dirSet) == {p \in fileSet \cup dirSet : Len(p) > 0 /\ dirname(p) = dir}

RECURSIVE PostOrder(_, _)
RECURSIVE VisitAll(_, _)
\* The loop of #deleteEmptyDirs over the directories `entries` of one
\* directory, in the order of their names.
VisitAll(entries, dirSet) ==
    IF entries = {} THEN <<>>
    ELSE LET next == CHOOSE d \in entries :
                        \A e \in entries \ {d} : StrLess(basename(d), basename(e))
         IN  PostOrder(next, dirSet) \o <<next>> \o VisitAll(entries \ {next}, dirSet)

\* The directories #deleteEmptyDirs(dir) looks at, in the order in which it
\* reaches the test of line 359 for each: the directories below a directory
\* first, then the directory itself.
PostOrder(dir, dirSet) ==
    VisitAll({d \in dirSet : Len(d) > 0 /\ dirname(d) = dir}, dirSet)

-----------------------------------------------------------------------------
(* The configurations and the dates the model runs on *)

\* Number of date strings a configuration of Spec holds at most.
MaxEvents == 2

\* Days looked up in SpecSingle on each side of a day of DayMonths.
WindowRadius == 1

Fmt2(n) == <<DigitChars[(n \div 10) + 1], DigitChars[(n % 10) + 1]>>

Fmt4(n) ==
    <<DigitChars[(n \div 1000) + 1], DigitChars[((n \div 100) % 10) + 1],
      DigitChars[((n \div 10) % 10) + 1], DigitChars[(n % 10) + 1]>>

\* "DD.MM." of a <<day, month>> pair
FmtDM(dm) == Fmt2(dm[1]) \o <<".">> \o Fmt2(dm[2]) \o <<".">>

\* The forms of the README's table of formatting options.
FixedDay(dm, y) == FmtDM(dm) \o Fmt4(y)

FixedSpan(dm1, y1, dm2, y2) == FixedDay(dm1, y1) \o <<"-">> \o FixedDay(dm2, y2)

RecBetween(dm, y1, y2) == FmtDM(dm) \o Fmt4(y1) \o <<"_">> \o Fmt4(y2)

RecFrom(dm, y) == FmtDM(dm) \o <<">">> \o Fmt4(y)

RecUpTo(dm, y) == FmtDM(dm) \o <<"<">> \o Fmt4(y)

RecDay(dm) == FmtDM(dm) \o <<"x">>

SpanFrom(dm1, y1, dm2) == FixedDay(dm1, y1) \o <<"-">> \o RecDay(dm2)

SpanUpTo(dm1, dm2, y2) == RecDay(dm1) \o <<"-">> \o FixedDay(dm2, y2)

SpanAny(dm1, dm2) == RecDay(dm1) \o <<"-">> \o RecDay(dm2)

\* Day and month pairs of the events of SpecSingle: the two sides of the new
\* year and of the leap day.
DayMonths == {<<31, 12>>, <<1, 1>>, <<28, 2>>, <<29, 2>>}

\* Years written in the events (2004 is a leap year), and years looked up.
EventYears == {2003, 2004}

LookupYears == {2002, 2003, 2004, 2005}

SingleDayForms ==
    {FixedDay(dm, y) : dm \in DayMonths, y \in EventYears}
    \cup {RecBetween(dm, ys[1], ys[2]) : dm \in DayMonths, ys \in EventYears \X EventYears}
    \cup {RecFrom(dm, y) : dm \in DayMonths, y \in EventYears}
    \cup {RecUpTo(dm, y) : dm \in DayMonths, y \in EventYears}
    \cup {RecDay(dm) : dm \in DayMonths}

SpanForms ==
    {FixedSpan(a[1], a[2], b[1], b[2]) :
        a \in DayMonths \X EventYears, b \in DayMonths \X EventYears}
    \cup {SpanFrom(a[1], a[2], dm) : a \in DayMonths \X EventYears, dm \in DayMonths}
    \cup {SpanUpTo(dm, b[1], b[2]) : dm \in DayMonths, b \in DayMonths \X EventYears}
    \cup {SpanAny(dms[1], dms[2]) : dms \in DayMonths \X DayMonths}

\* Every well-formed date string over DayMonths and EventYears.
RawForms == SingleDayForms \cup SpanForms

StringEntry(name, rawDates) == [name |-> name, isArray |-> FALSE, dates |-> <<rawDates>>]

ArrayEntry(name, dates) == [name |-> name, isArray |-> TRUE, dates |-> dates]

Names == << <<"A">>, <<"B">>, <<"C">>, <<"D">> >>

\* Recurring events that last a whole year, from the first of March to the
\* last day of February: the end of one occurrence is the eve of the next.
YearLongForms == {SpanAny(<<1, 3>>, <<28, 2>>), SpanAny(<<1, 3>>, <<29, 2>>)}

\* Strings that put a marker of a recurring day and a range together:
\* '31.12.2003-01.01.2004_', '31.12.2003_2004-01.01.2004' and
\* '31.12.>2003-01.01.2004'.
HybridForms ==
    {FixedSpan(<<31, 12>>, 2003, <<1, 1>>, 2004) \o <<"_">>,
     RecBetween(<<31, 12>>, 2003, 2004) \o <<"-">> \o FixedDay(<<1, 1>>, 2004),
     RecFrom(<<31, 12>>, 2003) \o <<"-">> \o FixedDay(<<1, 1>>, 2004)}

SingleConfigs ==
    {<<StringEntry(Names[1], r)>> : r \in RawForms \cup YearLongForms \cup HybridForms}

\* The days within WindowRadius of a day of DayMonths, in the years looked up
\* (the argument getCustomEventMatch gets from #resolveKnownDateDestination is
\* a normalizedStart).
LookupDates ==
    {[day |-> normalizedStart(y, dm[2], dm[1]).day + k, ms |-> 0] :
        y \in LookupYears, dm \in DayMonths, k \in (0 - WindowRadius)..WindowRadius}

\* The date strings of Spec: one of each priority tier the grammar reaches,
\* all around the new year 2004/2005, a second fixed range, and three strings
\* outside the grammar (no day and month; empty; a "_" without a year).
Menu ==
    {FixedDay(<<31, 12>>, 2004),
     FixedSpan(<<31, 12>>, 2004, <<1, 1>>, 2005),
     FixedSpan(<<30, 12>>, 2004, <<31, 12>>, 2004),
     RecBetween(<<31, 12>>, 2004, 2005),
     RecUpTo(<<31, 12>>, 2004),
     RecFrom(<<31, 12>>, 2004),
     SpanUpTo(<<31, 12>>, <<1, 1>>, 2005),
     SpanFrom(<<31, 12>>, 2004, <<1, 1>>),
     RecDay(<<31, 12>>),
     SpanAny(<<31, 12>>, <<1, 1>>),
     Fmt4(2004),
     <<>>,
     FmtDM(<<31, 12>>) \o <<"_">>}

RECURSIVE SeqsUpTo(_, _)
\* The sequences over S of length at most n.
SeqsUpTo(S, n) ==
    IF n = 0 THEN {<<>>}
    ELSE LET shorter == SeqsUpTo(S, n - 1)
         IN  shorter \cup {Append(q, x) : q \in {t \in shorter : Len(t) = n - 1}, x \in S}

\* A configuration of Spec: up to MaxEvents date strings, each the string
\* value of its own key, or all of them the array value of one key.
Configs ==
    LET lists == SeqsUpTo(Menu, MaxEvents)
    IN  {[i \in 1..Len(l) |-> StringEntry(Names[i], l[i])] : l \in lists}
        \cup {<<ArrayEntry(Names[1], l)>> : l \in lists}

\* The days looked up in Spec: the new year's eve and the new year's day of
\* the years around the events of Menu, and the day before.
MenuDates ==
    {normalizedStart(t[1], t[2], t[3]) :
        t \in {<<2003, 12, 31>>, <<2004, 1, 1>>, <<2004, 12, 30>>, <<2004, 12, 31>>,
               <<2005, 1, 1>>, <<2005, 12, 31>>, <<2006, 1, 1>>}}

\* Number of files below rootPath when a run of SpecSort starts, at most.
MaxFiles == 2

\* Number of file system calls that fail during a run of SpecSort, at most.
MaxIoErrors == 1

\* The configurations of SpecSort: none; a fixed range under a two-segment
\* name; the recurring new year; a fixed range across the new year under a
\* name with the other two separators; a recurring day; a string that makes
\* #prepareDates throw.
SortConfigs ==
    {<<>>,
     <<StringEntry(<<"T", "|", "I">>, FixedSpan(<<30, 12>>, 2004, <<31, 12>>, 2004))>>,
     <<StringEntry(<<"N", "Y">>, SpanAny(<<31, 12>>, <<1, 1>>))>>,
     <<StringEntry(<<"a", "\\", "b", "/", "c">>, FixedSpan(<<31, 12>>, 2004, <<1, 1>>, 2005))>>,
     <<StringEntry(<<"R">>, RecDay(<<31, 12>>))>>,
     <<StringEntry(<<"A">>, FmtDM(<<31, 12>>) \o <<"_">>)>>}

\* The files a run of SpecSort may find: photos and videos with a date in
\* the name (one of them where the season rule puts it), a photo without a
\* date, files of other extensions with and without a date, files below
\* an ignored directory and below a directory whose name starts with ".",
\* and a photo whose name matches a pattern with a month 13.
Placements ==
    {<<<<"2", "0", "0", "4", "-", "1", "2", "-", "3", "1", ".", "j", "p", "g">>>>,
     <<<<"d">>, <<"3", "1", ".", "1", "2", ".", "2", "0", "0", "4", ".", "J", "P", "G">>>>,
     <<<<"d">>, <<"e">>, <<"2", "0", "0", "5", "0", "1", "0", "1", "_", "1", "0", "1", "0", "1", "0", ".", "m", "p", "4">>>>,
     <<<<"2", "0", "0", "4">>, <<"S", "u", "m", "m", "e", "r", " ", "2", "0", "0", "4">>, <<"2", "0", "0", "4", "-", "0", "7", "-", "1", "5", ".", "p", "n", "g">>>>,
     <<<<"d">>, <<"x", ".", "j", "p", "g">>>>,
     <<<<"2", "0", "0", "4", "-", "1", "2", "-", "3", "1", ".", "t", "x", "t">>>>,
     <<<<"d">>, <<"a">>>>,
     <<<<"#", "s", "o", "r", "t", "e", "d">>, <<"k">>, <<"2", "0", "0", "4", "-", "1", "2", "-", "3", "1", ".", "j", "p", "g">>>>,
     <<<<".", "g">>, <<"x", ".", "j", "p", "g">>>>,
     <<<<"2", "0", "0", "4", "-", "1", "3", "-", "0", "1", ".", "j", "p", "g">>>>}

\* The directories without a file a run of SpecSort may find: none; an empty
\* directory that holds an empty directory; an empty directory below an
\* ignored one.
EmptyDirs ==
    {{},
     {<<<<"m">>>>, <<<<"m">>, <<"n">>>>},
     {<<<<"#", "I", "g", "n", "o", "r", "e", "d">>>>, <<<<"#", "I", "g", "n", "o", "r", "e", "d">>, <<"p">>>>}}

\* The directories that hold the files fs.
DirsOf(fs) == UNION {Prefixes(dirname(f)) : f \in fs}

-----------------------------------------------------------------------------
(* The state machine *)

NoDate == [day |-> 0, ms |-> 0]

NoResult == [kind |-> "none"]

\* No run of sort() is going on (Spec and SpecSingle look at calls of
\* getCustomEventMatch alone).
NoRun ==
    /\ files = {} /\ dirs = {} /\ files0 = {} /\ dirs0 = {}
    /\ phase = "none"
    /\ allFiles = <<>> /\ todo = <<>>
    /\ filePath = <<>> /\ targetDir = <<>> /\ outcome = "none"
    /\ movedFilesLength = 0 /\ skippedFilesLength = 0 /\ deletedFilesLength = 0
    /\ builds = 0 /\ ioErrors = 0

Init ==
    /\ CUSTOM_EVENTS_DATES \in Configs
    /\ date = NoDate
    /\ customEvents = <<>>
    /\ result = NoResult
    /\ NoRun

InitSingle ==
    /\ CUSTOM_EVENTS_DATES \in SingleConfigs
    /\ date = NoDate
    /\ customEvents = <<>>
    /\ result = NoResult
    /\ NoRun

\* new TimelineMediaSorter().sort() is about to run on a folder.
InitSort ==
    /\ CUSTOM_EVENTS_DATES \in SortConfigs
    /\ date = NoDate
    /\ customEvents = <<>>
    /\ result = NoResult
    /\ files \in {fs \in SUBSET Placements : Cardinality(fs) <= MaxFiles}
    /\ dirs \in {DirsOf(files) \cup extra : extra \in EmptyDirs}
    /\ files0 = files
    /\ dirs0 = dirs
    /\ phase = "scan"
    /\ allFiles = <<>> /\ todo = <<>>
    /\ filePath = <<>> /\ targetDir = <<>> /\ outcome = "none"
    /\ movedFilesLength = 0 /\ skippedFilesLength = 0 /\ deletedFilesLength = 0
    /\ builds = 0 /\ ioErrors = 0

\* One call EventsResolver.getCustomEventMatch(d): the table is built from
\* the settings (line 435), then searched.
GetCustomEventMatch(d) ==
    \E table \in {getCustomEvents(CUSTOM_EVENTS_DATES)} :
        /\ date' = d
        /\ customEvents' = table.events
        /\ result' = resultOf(table, d)
        /\ UNCHANGED CUSTOM_EVENTS_DATES

\* #organizeFiles, line 185: the scan of rootPath and the sort of the paths.
WalkDir ==
    /\ phase = "scan"
    /\ allFiles' = SortPaths(walkDir(files))
    /\ phase' = "organize"
    /\ UNCHANGED <<resolverVars, files, dirs, files0, dirs0, todo, filePath, targetDir,
                   outcome, movedFilesLength, skippedFilesLength, deletedFilesLength,
                   builds, ioErrors>>

\* Mutant of MoveTo: every file that was renamed counts as moved.
MoveTo_everyRenameMoved(path, target, countsAsMoved) ==
    /\ targetDir' = target
    /\ allFiles' = Tail(allFiles)
    /\ UNCHANGED <<phase, todo, files0, dirs0, deletedFilesLength>>
    /\ \/ /\ path = target \o <<basename(path)>>
          /\ outcome' = "inPlace"
          /\ skippedFilesLength' = skippedFilesLength + 1
          /\ UNCHANGED <<files, dirs, movedFilesLength, ioErrors>>
       \/ /\ path # target \o <<basename(path)>>
          /\ ioErrors < MaxIoErrors
          /\ outcome' = "mkDirFailed"
          /\ skippedFilesLength' = skippedFilesLength + 1
          /\ ioErrors' = ioErrors + 1
          /\ UNCHANGED <<files, dirs, movedFilesLength>>
       \/ /\ path # target \o <<basename(path)>>
          /\ ioErrors < MaxIoErrors
          /\ outcome' = "moveFailed"
          /\ dirs' = dirs \cup Prefixes(target)
          /\ skippedFilesLength' = skippedFilesLength + 1
          /\ ioErrors' = ioErrors + 1
          /\ UNCHANGED <<files, movedFilesLength>>
       \/ /\ path # target \o <<basename(path)>>
          /\ outcome' = "moved"
          /\ dirs' = dirs \cup Prefixes(target)
          /\ files' = (files \ {path}) \cup {target \o <<basename(path)>>}
          /\ movedFilesLength' = movedFilesLength + 1
          /\ UNCHANGED skippedFilesLength
          /\ UNCHANGED ioErrors

\* What the iteration does once targetDir is known (lines 192-204): the file
\* in place is skipped; fs.mkdir fails; fs.rename fails after the directories
\* were made; or the file is moved (over a file of the same path, if there is
\* one) and #logResult counts it.
MoveTo(path, target, countsAsMoved) ==
    /\ targetDir' = target
    /\ allFiles' = Tail(allFiles)
    /\ UNCHANGED <<phase, todo, files0, dirs0, deletedFilesLength>>
    /\ \/ /\ path = target \o <<basename(path)>>
          /\ outcome' = "inPlace"
          /\ skippedFilesLength' = skippedFilesLength + 1
          /\ UNCHANGED <<files, dirs, movedFilesLength, ioErrors>>
       \/ /\ path # target \o <<basename(path)>>
          /\ ioErrors < MaxIoErrors
          /\ outcome' = "mkDirFailed"
          /\ skippedFilesLength' = skippedFilesLength + 1
          /\ ioErrors' = ioErrors + 1
          /\ UNCHANGED <<files, dirs, movedFilesLength>>
       \/ /\ path # target \o <<basename(path)>>
          /\ ioErrors < MaxIoErrors
          /\ outcome' = "moveFailed"
          /\ dirs' = dirs \cup Prefixes(target)
          /\ skippedFilesLength' = skippedFilesLength + 1
          /\ ioErrors' = ioErrors + 1
          /\ UNCHANGED <<files, movedFilesLength>>
       \/ /\ path # target \o <<basename(path)>>
          /\ outcome' = "moved"
          /\ dirs' = dirs \cup Prefixes(target)
          /\ files' = (files \ {path}) \cup {target \o <<basename(path)>>}
          /\ movedFilesLength' = movedFilesLength + (IF countsAsMoved THEN 1 ELSE 0)
          /\ skippedFilesLength' = skippedFilesLength + (IF countsAsMoved THEN 0 ELSE 1)
          /\ UNCHANGED ioErrors

\* One iteration of the loop of #organizeFiles (lines 187-205).  For a file
\* of a supported extension with a date in its name
\* #resolveKnownDateDestination calls getCustomEventMatch, which builds the
\* table; the TypeError of #prepareDates leaves #organizeFiles and is caught
\* in PerformanceWrapper.getCallbackPerformance, so the run is over.
OrganizeFile ==
    /\ phase = "organize"
    /\ allFiles # <<>>
    /\ filePath' = Head(allFiles)
    /\ LET names     == getFileNames(Head(allFiles))
           dateInfo  == parseDateFromFilename(names.fileName)
           supported == isFileSupported(names.fileExt)
       IN  IF supported /\ dateInfo.found
           THEN /\ GetCustomEventMatch(mediaDateOf(dateInfo))
                /\ builds' = builds + 1
                /\ IF result'.kind = "TypeError"
                   THEN /\ outcome' = "threw"
                        /\ phase' = "done"
                        /\ UNCHANGED <<files, dirs, files0, dirs0, allFiles, todo, targetDir,
                                       movedFilesLength, skippedFilesLength,
                                       deletedFilesLength, ioErrors>>
                   ELSE MoveTo(Head(allFiles),
                               resolveKnownDateDestination(names.fileExt, dateInfo, result'),
                               TRUE)
           ELSE /\ UNCHANGED <<resolverVars, builds>>
                /\ MoveTo(Head(allFiles),
                          resolveUnknownDateDestination(Head(allFiles), supported),
                          FALSE)

\* #organizeFiles, line 207: the loop is over and #deleteEmptyDirs(rootPath)
\* starts on the directories there are.
EnterDeleteEmptyDirs ==
    /\ phase = "organize"
    /\ allFiles = <<>>
    /\ phase' = "clean"
    /\ todo' = PostOrder(rootPath, dirs)
    /\ UNCHANGED <<resolverVars, files, dirs, files0, dirs0, allFiles, filePath, targetDir,
                   outcome, movedFilesLength, skippedFilesLength, deletedFilesLength,
                   builds, ioErrors>>

\* #deleteEmptyDirs, lines 350-367, for one directory: it is left alone when
\* it has entries, otherwise fs.rm removes it or fails.
DeleteEmptyDirs ==
    /\ phase = "clean"
    /\ todo # <<>>
    /\ todo' = Tail(todo)
    /\ UNCHANGED <<resolverVars, files, files0, dirs0, phase, allFiles, filePath, targetDir,
                   outcome, movedFilesLength, skippedFilesLength, builds>>
    /\ \/ /\ Entries(Head(todo), files, dirs) # {}
          /\ UNCHANGED <<dirs, deletedFilesLength, ioErrors>>
       \/ /\ Entries(Head(todo), files, dirs) = {}
          /\ dirs' = dirs \ {Head(todo)}
          /\ deletedFilesLength' = deletedFilesLength + 1
          /\ UNCHANGED ioErrors
       \/ /\ Entries(Head(todo), files, dirs) = {}
          /\ ioErrors < MaxIoErrors
          /\ ioErrors' = ioErrors + 1
          /\ UNCHANGED <<dirs, deletedFilesLength>>

\* #deleteEmptyDirs(rootPath) returns and sort() prints the counters.
Finish ==
    /\ phase = "clean"
    /\ todo = <<>>
    /\ phase' = "done"
    /\ UNCHANGED <<resolverVars, files, dirs, files0, dirs0, allFiles, todo, filePath,
                   targetDir, outcome, movedFilesLength, skippedFilesLength,
                   deletedFilesLength, builds, ioErrors>>

Next == \E d \in MenuDates : GetCustomEventMatch(d) /\ UNCHANGED sorterVars

NextSingle == \E d \in LookupDates : GetCustomEventMatch(d) /\ UNCHANGED sorterVars

NextSort ==
    \/ WalkDir
    \/ OrganizeFile
    \/ EnterDeleteEmptyDirs
    \/ DeleteEmptyDirs
    \/ Finish

Spec == Init /\ [][Next]_vars

SpecSingle == InitSingle /\ [][NextSingle]_vars

SpecSort == InitSort /\ [][NextSort]_vars

-----------------------------------------------------------------------------
(* Vocabulary of the properties *)

\* A call has been made and has returned (a match or null).
Returned == result.kind \in {"match", "null"}

\* The events of the configuration in declaration order, before the sort.
Declared == FilterKept(mapEvents(getPreparedEvents(CUSTOM_EVENTS_DATES)))

\* The interval of event e contains the date looked up.
Contains(e) == matchEvent(e, date).match

\* The result that names event e for the date looked up.
ResultFor(e) == MatchResult(e, date, matchEvent(e, date).crossedYears)

\* The one date string of a configuration of SpecSingle.
TheRaw == CUSTOM_EVENTS_DATES[1].dates[1]

\* The date new Date(y, m - 1, d) of a <<day, month>> pair in year y.
DayOf(dm, y) == normalizedStart(y, dm[2], dm[1])

-----------------------------------------------------------------------------
(* C1 *)

\* C1: when a fixedRange event and a recurring event of the table both
\* contain the date looked up, the call returns a fixedRange event that
\* contains the date, whatever the order of declaration.
C1_FixedRangeBeatsRecurring ==
    Returned =>
        \A i, j \in 1..Len(customEvents) :
            ( /\ customEvents[i].fixedRange
              /\ customEvents[j].recurring
              /\ Contains(customEvents[i])
              /\ Contains(customEvents[j]) )
            => /\ result.kind = "match"
               /\ ~result.recurring
               /\ \E k \in 1..Len(customEvents) :
                    /\ customEvents[k].fixedRange
                    /\ Contains(customEvents[k])
                    /\ result = ResultFor(customEvents[k])

\* C1 witness: the recurring event is declared first, the fixed one second,
\* both contain the date, and the fixed one is returned.
C1_Witness ==
    /\ Returned
    /\ Len(Declared) = 2
    /\ Declared[1].recurring /\ Declared[2].fixedRange
    /\ Contains(Declared[1]) /\ Contains(Declared[2])
    /\ Declared[1].name # Declared[2].name
    /\ result = ResultFor(Declared[2])

-----------------------------------------------------------------------------
(* C2 *)

\* C2: a table holding the one fixed single-day event DD.MM.YYYY matches the
\* date DD.MM.YYYY with that event, and matches neither the day before nor
\* the day after.
C2_FixedSingleDay ==
    \A dm \in DayMonths, y \in EventYears :
        (Returned /\ TheRaw = FixedDay(dm, y)) =>
            /\ date = DayOf(dm, y) =>
                 /\ result.kind = "match"
                 /\ result.name = Names[1]
                 /\ ~result.recurring
                 /\ result.year = getFullYear(date)
                 /\ result.crossedYears = <<>>
            /\ date.day \in {DayOf(dm, y).day - 1, DayOf(dm, y).day + 1} =>
                 result = NullResult

\* C2 witness: the day after a fixed single-day event has been looked up and
\* found no match.
C2_Witness ==
    \E dm \in DayMonths, y \in EventYears :
        /\ TheRaw = FixedDay(dm, y)
        /\ date.day = DayOf(dm, y).day + 1
        /\ result = NullResult

-----------------------------------------------------------------------------
(* C3 *)

\* C3: with the event 31.12.x-01.01.x, every 31 December and every 1 January
\* matches, and a 31 December of year Y reports the crossed years (Y, Y + 1).
C3_NewYear ==
    (Returned /\ TheRaw = SpanAny(<<31, 12>>, <<1, 1>>)) =>
        /\ (MonthOf(date) = 12 /\ getDate(date) = 31) =>
              /\ result.kind = "match"
              /\ result.crossedYears = <<getFullYear(date), getFullYear(date) + 1>>
        /\ (MonthOf(date) = 1 /\ getDate(date) = 1) => result.kind = "match"

\* C3 witness: a 31 December has been looked up in 31.12.x-01.01.x.
C3_Witness ==
    /\ TheRaw = SpanAny(<<31, 12>>, <<1, 1>>)
    /\ MonthOf(date) = 12 /\ getDate(date) = 31
    /\ result.kind = "match"
    /\ result.crossedYears = <<getFullYear(date), getFullYear(date) + 1>>

-----------------------------------------------------------------------------
(* C4 *)

\* The recurring single-day strings of RawForms as <<string, <<day, month>>,
\* first year or Null, last year or Null>>.
RecurringSingleDayCases ==
    {<<RecBetween(dm, ys[1], ys[2]), dm, ys[1], ys[2]>> :
        dm \in DayMonths, ys \in EventYears \X EventYears}
    \cup {<<RecFrom(dm, y), dm, y, Null>> : dm \in DayMonths, y \in EventYears}
    \cup {<<RecUpTo(dm, y), dm, Null, y>> : dm \in DayMonths, y \in EventYears}
    \cup {<<RecDay(dm), dm, Null, Null>> : dm \in DayMonths}
    \cup {<<SpanFrom(dm, y, dm), dm, y, Null>> : dm \in DayMonths, y \in EventYears}
    \cup {<<SpanUpTo(dm, dm, y), dm, Null, y>> : dm \in DayMonths, y \in EventYears}

\* C4: a recurring single-day event matches a date exactly when the day and
\* the month of the date are the event's and the year of the date is neither
\* below the first year nor above the last year, an absent year bounding
\* nothing.
C4_RecurringSingleDay ==
    \A c \in RecurringSingleDayCases :
        (Returned /\ TheRaw = c[1]) =>
            ( result.kind = "match"
              <=> /\ getDate(date) = c[2][1]
                  /\ MonthOf(date) = c[2][2]
                  /\ (c[3] = Null \/ getFullYear(date) >= c[3])
                  /\ (c[4] = Null \/ getFullYear(date) <= c[4]) )

\* C4 witness: DD.MM.>YYYY looked up on its day and month in an earlier year
\* finds no match.
C4_Witness ==
    \E dm \in DayMonths, y \in EventYears :
        /\ TheRaw = RecFrom(dm, y)
        /\ getDate(date) = dm[1] /\ MonthOf(date) = dm[2]
        /\ getFullYear(date) < y
        /\ result = NullResult

-----------------------------------------------------------------------------
(* C5 *)

\* C5: a fixed range matches exactly the dates from its start day to its end
\* day, both included, and when its start year is lower than its end year
\* every match reports the crossed years (start year, end year).
C5_FixedRange ==
    \A a \in DayMonths \X EventYears, b \in DayMonths \X EventYears :
        (Returned /\ TheRaw = FixedSpan(a[1], a[2], b[1], b[2])) =>
            /\ result.kind = "match"
                 <=> /\ DayOf(a[1], a[2]).day <= date.day
                     /\ date.day <= DayOf(b[1], b[2]).day
            /\ (result.kind = "match" /\ a[2] < b[2]) =>
                 result.crossedYears = <<a[2], b[2]>>
            /\ (result.kind = "match" /\ a[2] = b[2]) =>
                 result.crossedYears = <<>>

\* C5 witness: the start day of a fixed range running into the next year has
\* been looked up, and the date of a later year within it too.
C5_Witness ==
    \E a \in DayMonths \X EventYears, b \in DayMonths \X EventYears :
        /\ TheRaw = FixedSpan(a[1], a[2], b[1], b[2])
        /\ a[2] < b[2]
        /\ date = DayOf(a[1], a[2])
        /\ result.kind = "match"
        /\ result.crossedYears = <<a[2], b[2]>>

-----------------------------------------------------------------------------
(* C6 *)

\* <<month, day>> order of two <<day, month>> pairs.
DMBefore(dm1, dm2) == dm1[2] < dm2[2] \/ (dm1[2] = dm2[2] /\ dm1[1] < dm2[1])

DMAtMost(dm1, dm2) == dm1 = dm2 \/ DMBefore(dm1, dm2)

\* The recurring multi-day strings of RawForms that stay within one year, as
\* <<string, start <<day, month>>, end <<day, month>>, first year, last year>>.
WithinYearCases ==
    {c \in
        {<<SpanFrom(dms[1], y, dms[2]), dms[1], dms[2], y, Null>> :
            dms \in DayMonths \X DayMonths, y \in EventYears}
        \cup {<<SpanUpTo(dms[1], dms[2], y), dms[1], dms[2], Null, y>> :
            dms \in DayMonths \X DayMonths, y \in EventYears}
        \cup {<<SpanAny(dms[1], dms[2]), dms[1], dms[2], Null, Null>> :
            dms \in DayMonths \X DayMonths} :
     DMBefore(c[2], c[3])}

\* C6: a recurring multi-day event that does not cross the year boundary
\* matches a date exactly when the year of the date is within the event's
\* years and the day and month of the date lie between the start day and
\* month and the end day and month, both included.
C6_RecurringWithinYear ==
    \A c \in WithinYearCases :
        (Returned /\ TheRaw = c[1]) =>
            ( result.kind = "match"
              <=> /\ (c[4] = Null \/ getFullYear(date) >= c[4])
                  /\ (c[5] = Null \/ getFullYear(date) <= c[5])
                  /\ DMAtMost(c[2], <<getDate(date), MonthOf(date)>>)
                  /\ DMAtMost(<<getDate(date), MonthOf(date)>>, c[3]) )

-----------------------------------------------------------------------------
(* C7 *)

\* The priority tier of an event as the README and the specification list
\* them; 0 for an event of no tier.
Tier(e) ==
    LET hasStart == e.start.year # Null
        hasEnd   == e.end.year # Null
    IN  IF e.fixedRange /\ ~e.recurring THEN (IF e.singleDay THEN 1 ELSE 2)
        ELSE IF ~e.recurring THEN 0
        ELSE IF e.singleDay /\ hasStart /\ hasEnd THEN 3
        ELSE IF e.singleDay /\ hasEnd THEN 4
        ELSE IF e.singleDay /\ hasStart THEN 5
        ELSE IF hasStart /\ hasEnd THEN 6
        ELSE IF hasEnd THEN 7
        ELSE IF hasStart THEN 8
        ELSE IF e.singleDay THEN 9
        ELSE 10

\* The positions of the events of `events` that contain the date looked up.
Hits(events) == {i \in 1..Len(events) : Contains(events[i])}

\* C7: the table is in non-decreasing order of priority tier, and the call
\* returns the first event of the table that contains the date (null when
\* none does).
C7_TableOrderedByTier ==
    Returned =>
        /\ \A i, j \in 1..Len(customEvents) :
              (i < j /\ Tier(customEvents[i]) # 0 /\ Tier(customEvents[j]) # 0)
              => Tier(customEvents[i]) <= Tier(customEvents[j])
        /\ IF Hits(customEvents) = {}
           THEN result = NullResult
           ELSE \E k \in Hits(customEvents) :
                    /\ \A i \in Hits(customEvents) : k <= i
                    /\ result = ResultFor(customEvents[k])

\* C7 witness: two recurring events of different tiers, the one of the later
\* tier declared first, both contain the date; the table holds them in tier
\* order and the one of the earlier tier is returned.
C7_Witness ==
    /\ Returned
    /\ Len(Declared) = 2
    /\ Declared[1].recurring /\ Declared[2].recurring
    /\ Tier(Declared[1]) > Tier(Declared[2])
    /\ Contains(Declared[1]) /\ Contains(Declared[2])
    /\ customEvents = <<Declared[2], Declared[1]>>
    /\ result = ResultFor(Declared[2])

-----------------------------------------------------------------------------
(* C8 *)

OfTier(events, t) == SelectSeq(events, LAMBDA e : Tier(e) = t)

-----------------------------------------------------------------------------
(* C9 *)

\* The sequences that hold the elements of seq in another order (or the same).
Reordered(seq) ==
    {[i \in 1..Len(seq) |-> seq[p[i]]] : p \in Permutations(1..Len(seq))}

\* The configurations that declare the events of config in another order: the
\* keys reordered, and the dates within each list reordered.
Reorderings(config) ==
    UNION {
        {[i \in 1..Len(c) |-> [c[i] EXCEPT !.dates = q[i]]] :
            q \in {f \in [1..Len(c) -> UNION {Reordered(c[i].dates) : i \in 1..Len(c)}] :
                      \A i \in 1..Len(c) : f[i] \in Reordered(c[i].dates)}} :
        c \in Reordered(config)}

NoTie ==
    \A i, j \in Hits(customEvents) :
        i # j => Tier(customEvents[i]) # Tier(customEvents[j])

-----------------------------------------------------------------------------
(* C10 *)

\* C10: every event of the table has exactly one of fixedRange and recurring
\* set, and #categorizeEvent gives it one of the tiers 1 to 10.
C10_ExactlyOneOfFixedAndRecurring ==
    Returned =>
        \A i \in 1..Len(customEvents) :
            /\ customEvents[i].fixedRange # customEvents[i].recurring
            /\ categorizeEvent(customEvents[i]) \in 1..10

-----------------------------------------------------------------------------
(* C11 *)

\* str is made of exactly n decimal digits.
IsDigits(str, n) == Len(str) = n /\ \A i \in 1..Len(str) : str[i] \in Digits

\* str is DD.MM. followed by a year part that satisfies YearPart.
IsDateWith(str, YearPart(_)) ==
    LET pieces == SplitAll(str, ".")
    IN  /\ Len(pieces) = 3
        /\ IsDigits(pieces[1], 2)
        /\ IsDigits(pieces[2], 2)
        /\ YearPart(pieces[3])

\* DD.MM.YYYY or DD.MM.x
IsPlainDate(str) == IsDateWith(str, LAMBDA y : IsDigits(y, 4) \/ y = <<"x">>)

\* The forms of the date grammar (section 4.1 of the specification, the
\* formatting table of the README).
FollowsGrammar(str) ==
    \/ IsPlainDate(str)
    \/ LET sides == SplitAll(str, "-")
       IN  Len(sides) = 2 /\ IsPlainDate(sides[1]) /\ IsPlainDate(sides[2])
    \/ IsDateWith(str, LAMBDA y :
          Len(y) = 5 /\ y[1] \in {">", "<"} /\ IsDigits(Tail(y), 4))
    \/ IsDateWith(str, LAMBDA y :
          Len(y) = 9 /\ y[5] = "_" /\ IsDigits(SubSeq(y, 1, 4), 4)
                     /\ IsDigits(SubSeq(y, 6, 9), 4))

\* The configuration without the date strings that do not follow the grammar.
WellFormedOnly(config) ==
    LET kept(e) == SelectSeq(e.dates, LAMBDA raw : FollowsGrammar(clearStr(raw)))
        trimmed == [i \in 1..Len(config) |-> [config[i] EXCEPT !.dates = kept(config[i])]]
    IN  SelectSeq(trimmed, LAMBDA e : e.dates # <<>>)

\* C11: after a lookup the table holds no event of an empty or malformed date
\* string and holds the events of all the other strings: it is the table of
\* the configuration without the strings outside the grammar.
C11_MalformedDropped ==
    result.kind # "none"
    => customEvents = getCustomEvents(WellFormedOnly(CUSTOM_EVENTS_DATES)).events

-----------------------------------------------------------------------------
(* C12 *)

\* C12: a lookup never raises an error; it returns a match or null.
C12_NeverThrows == result.kind # "TypeError"

-----------------------------------------------------------------------------
(* C19 *)

\* The recurring multi-day strings of RawForms that cross the year boundary
\* (the end day and month come before the start day and month), as
\* <<string, start <<day, month>>, end <<day, month>>, first year, last year>>.
CrossingCases ==
    {c \in
        {<<SpanFrom(dms[1], y, dms[2]), dms[1], dms[2], y, Null>> :
            dms \in DayMonths \X DayMonths, y \in EventYears}
        \cup {<<SpanUpTo(dms[1], dms[2], y), dms[1], dms[2], Null, y>> :
            dms \in DayMonths \X DayMonths, y \in EventYears}
        \cup {<<SpanAny(dms[1], dms[2]), dms[1], dms[2], Null, Null>> :
            dms \in DayMonths \X DayMonths} :
     DMBefore(c[3], c[2])}

\* Calendar order of the day dm1 of year y1 and the day dm2 of year y2.
DayAtMost(y1, dm1, y2, dm2) == y1 < y2 \/ (y1 = y2 /\ DMAtMost(dm1, dm2))

\* The date looked up lies in the window from the start day of year ys to the
\* end day of year ye of case c.
InWindow(c, ys, ye) ==
    /\ DayAtMost(ys, c[2], getFullYear(date), <<getDate(date), MonthOf(date)>>)
    /\ DayAtMost(getFullYear(date), <<getDate(date), MonthOf(date)>>, ye, c[3])

\* The year of a window's start and of a window's end: the adjacent year,
\* raised to the first year and lowered to the last year of the event.
StartYear(c, y) == IF c[4] # Null /\ c[4] > y THEN c[4] ELSE y

EndYear(c, y) == IF c[5] # Null /\ c[5] < y THEN c[5] ELSE y

\* C19: a date of year y within the years of a recurring multi-day event that
\* crosses the year boundary matches exactly when it lies in the window
\* previous year -> y or in the window y -> next year (the years clamped to
\* the event's years), and the crossed years are those of the window.
C19_CrossingWindows ==
    \A c \in CrossingCases :
        LET y == getFullYear(date)
        IN  ( /\ Returned /\ TheRaw = c[1]
              /\ (c[4] = Null \/ y >= c[4])
              /\ (c[5] = Null \/ y <= c[5]) )
            => IF InWindow(c, StartYear(c, y - 1), EndYear(c, y))
               THEN /\ result.kind = "match"
                    /\ result.crossedYears = <<StartYear(c, y - 1), EndYear(c, y)>>
               ELSE IF InWindow(c, StartYear(c, y), EndYear(c, y + 1))
               THEN /\ result.kind = "match"
                    /\ result.crossedYears = <<StartYear(c, y), EndYear(c, y + 1)>>
               ELSE result = NullResult

-----------------------------------------------------------------------------
(* C20 *)

\* C20: a recurring multi-day event with a start year never matches a date
\* before its start day of that year, and one with an end year never matches
\* a date after its end day of that year, whether it crosses the year
\* boundary or not.
C20_YearBoundsRespected ==
    \A c \in WithinYearCases \cup CrossingCases :
        (TheRaw = c[1] /\ result.kind = "match") =>
            /\ c[4] # Null =>
                  DayAtMost(c[4], c[2], getFullYear(date), <<getDate(date), MonthOf(date)>>)
            /\ c[5] # Null =>
                  DayAtMost(getFullYear(date), <<getDate(date), MonthOf(date)>>, c[5], c[3])

-----------------------------------------------------------------------------
(* Vocabulary of the properties of a run *)

\* An iteration of #organizeFiles has computed a targetDir for filePath.
Targeted == outcome \in {"inPlace", "mkDirFailed", "moveFailed", "moved"}

\* filePath has a supported extension and a date in its name.
KnownFile ==
    /\ isFileSupported(getFileNames(filePath).fileExt)
    /\ parseDateFromFilename(basename(filePath)).found

\* targetDir without the Videos folder of a video file.
EventDir ==
    IF getFileNames(filePath).fileExt \in VIDEO_EXTENSIONS
    THEN SubSeq(targetDir, 1, Len(targetDir) - 1)
    ELSE targetDir

\* The path p has an ignored directory above its last segment.
BelowIgnored(p) == \E k \in 1..(Len(p) - 1) : isIgnoredDir(p[k])

-----------------------------------------------------------------------------
(* C13 *)

\* C13: the event table is built once: during a run #getCustomEvents runs at
\* most one time, however many dates are looked up.
C13_TableBuiltOnce == builds <= 1

-----------------------------------------------------------------------------
(* C14 *)

\* The characters getCustomEventPath splits a name on.
Separators == {"|", "\\", "/"}

RECURSIVE JoinBar(_)
\* The segments written one after the other with "|" between them.
JoinBar(segments) ==
    IF segments = <<>> THEN <<>>
    ELSE IF Len(segments) = 1 THEN segments[1]
    ELSE segments[1] \o <<"|">> \o JoinBar(Tail(segments))

\* The name with each of its separators written as "|".
Barred(name) == [i \in 1..Len(name) |-> IF name[i] \in Separators THEN "|" ELSE name[i]]

\* The <years> of a match: 'Y1-Y2' of its crossed years, else the year of the
\* date.
YearsLabel ==
    IF result.crossedYears # <<>>
    THEN Fmt4(result.crossedYears[1]) \o <<"-">> \o Fmt4(result.crossedYears[2])
    ELSE Fmt4(getFullYear(date))

\* C14: for a match of a name of n segments the path has n segments when the
\* event is not recurring, the last one followed by ' <years>', and n + 1
\* when it is recurring, the n segments of the name and the last of them
\* again followed by ' <years>'; no segment holds a separator.
C14_EventPath ==
    (Targeted /\ result.kind = "match" /\ KnownFile) =>
        \E p \in {getCustomEventPath(result)} :
        \E n \in {Cardinality({i \in 1..Len(result.name) : result.name[i] \in Separators}) + 1} :
            /\ EventDir = p
            /\ \A i \in 1..Len(p) : \A j \in 1..Len(p[i]) : p[i][j] \notin Separators
            /\ Len(p) = IF result.recurring THEN n + 1 ELSE n
            /\ IF result.recurring
               THEN /\ JoinBar(SubSeq(p, 1, n)) = Barred(result.name)
                    /\ p[n + 1] = p[n] \o <<" ">> \o YearsLabel
               ELSE JoinBar(p) = Barred(result.name) \o <<" ">> \o YearsLabel

\* C14 witness: the recurring event NY matched with the crossed years 2004
\* and 2005, and the file went to NY/NY 2004-2005.
C14_Witness ==
    /\ outcome = "moved"
    /\ result.kind = "match" /\ result.recurring
    /\ result.crossedYears = <<2004, 2005>>
    /\ targetDir = <<<<"N", "Y">>, <<"N", "Y", " ", "2", "0", "0", "4", "-", "2", "0", "0", "5">>>>
    /\ targetDir \o <<basename(filePath)>> \in files

-----------------------------------------------------------------------------
(* C15 *)

\* The season of a month as the README and the claim name it; a number that
\* is no month has none.
IsSeasonOf(season, m) ==
    \/ season = <<"W", "i", "n", "t", "e", "r">> /\ m \in {12, 1, 2}
    \/ season = <<"S", "p", "r", "i", "n", "g">> /\ m \in {3, 4, 5}
    \/ season = <<"S", "u", "m", "m", "e", "r">> /\ m \in {6, 7, 8}
    \/ season = <<"A", "u", "t", "u", "m", "n">> /\ m \in {9, 10, 11}

Seasons == {<<"W", "i", "n", "t", "e", "r">>, <<"S", "p", "r", "i", "n", "g">>, <<"S", "u", "m", "m", "e", "r">>, <<"A", "u", "t", "u", "m", "n">>}

\* C15: a file of a supported extension with a date in its name goes to the
\* path of the custom event when an event of the table contains the date, and
\* otherwise to <year>/<Season> <year>, the season being that of the month in
\* the name; a video goes to the Videos folder of that directory.
C15_KnownDateDestination ==
    (Targeted /\ isFileSupported(getFileNames(filePath).fileExt)) =>
        \E info \in {parseDateFromFilename(basename(filePath))} :
            info.found =>
                \E matched \in {Hits(customEvents) # {}} :
                \E eventDir \in {EventDir} :
                    /\ date = DayOf(<<ToNumber(info.day), ToNumber(info.month)>>,
                                    ToNumber(info.year))
                    /\ matched = (result.kind = "match")
                    /\ IF matched
                       THEN eventDir = getCustomEventPath(result)
                       ELSE \E season \in Seasons :
                               /\ IsSeasonOf(season, ToNumber(info.month))
                               /\ eventDir = <<info.year, season \o <<" ">> \o info.year>>
                    /\ targetDir =
                          IF getFileNames(filePath).fileExt \in VIDEO_EXTENSIONS
                          THEN eventDir \o <<<<"V", "i", "d", "e", "o", "s">>>>
                          ELSE eventDir

-----------------------------------------------------------------------------
(* C16 *)

\* C16: a file of a supported extension without a date in its name goes to
\* #Unknown Dates/<its directory>, a file of another extension to
\* #Unknown Files/<its directory> whether its name holds a date or not; when
\* it has been moved it is there, under its name.
C16_UnknownDestination ==
    (Targeted /\ ~KnownFile) =>
        /\ targetDir =
              <<IF isFileSupported(getFileNames(filePath).fileExt)
                THEN <<"#", "U", "n", "k", "n", "o", "w", "n", " ", "D", "a", "t", "e", "s">>
                ELSE <<"#", "U", "n", "k", "n", "o", "w", "n", " ", "F", "i", "l", "e", "s">>>>
              \o SubSeq(filePath, 1, Len(filePath) - 1)
        /\ outcome # "inPlace"
        /\ outcome = "moved" =>
              /\ filePath \notin files
              /\ targetDir \o <<filePath[Len(filePath)]>> \in files

\* C16 witness: the file 2004-12-31.txt, whose name holds a date, and the
\* photo d/x.jpg, whose name holds none, have both been moved, the one to
\* #Unknown Files, the other to #Unknown Dates/d.
C16_Witness ==
    /\ outcome = "moved"
    /\ <<<<"#", "U", "n", "k", "n", "o", "w", "n", " ", "F", "i", "l", "e", "s">>, <<"2", "0", "0", "4", "-", "1", "2", "-", "3", "1", ".", "t", "x", "t">>>> \in files
    /\ <<<<"#", "U", "n", "k", "n", "o", "w", "n", " ", "D", "a", "t", "e", "s">>, <<"d">>, <<"x", ".", "j", "p", "g">>>> \in files
    /\ <<<<"d">>, <<"x", ".", "j", "p", "g">>>> \notin files

-----------------------------------------------------------------------------
(* C17 *)

\* C17: a run moves no file that is below an ignored directory and deletes
\* no file and no directory below one: what was there when the run started
\* is still there.
C17_IgnoredUntouched ==
    /\ \A f \in files0 : BelowIgnored(f) => f \in files
    /\ \A d \in dirs0 : BelowIgnored(d) => d \in dirs

-----------------------------------------------------------------------------
(* C18 *)

\* C18: no directory is deleted while files remain to be processed; a
\* directory that is deleted is empty at that moment and is not the root;
\* and when the run has ended without a failed file system call, no directory
\* below the root is empty.
C18_EmptyDirsRemoved ==
    /\ [](phase \in {"scan", "organize"} => dirs0 \subseteq dirs)
    /\ [][\A d \in dirs \ dirs' : d # rootPath /\ Entries(d, files, dirs) = {}]_vars
    /\ []((phase = "done" /\ ioErrors = 0)
            => \A d \in dirs : Entries(d, files, dirs) # {})

-----------------------------------------------------------------------------
(* C21 *)

\* The event of the table that the result was returned for.
Matched == customEvents[CHOOSE i \in Hits(customEvents) : \A j \in Hits(customEvents) : i <= j]

\* C21: the crossedYears of a match holds no entry or two; it holds entries
\* exactly when the matched event has crossesYear set; and for a recurring
\* event the two are consecutive years, one of them the year of the date.
C21_CrossedYearsPair ==
    result.kind = "match" =>
        /\ Len(result.crossedYears) \in {0, 2}
        /\ (result.crossedYears # <<>>) = Matched.crossesYear
        /\ (result.recurring /\ result.crossedYears # <<>>) =>
              /\ result.crossedYears[2] = result.crossedYears[1] + 1
              /\ getFullYear(date) \in {result.crossedYears[1], result.crossedYears[2]}

-----------------------------------------------------------------------------
(* C22 *)

\* The year-long events as <<string, start <<day, month>>, end <<day, month>>,
\* first year, last year>>.
YearLongCases ==
    {<<SpanAny(<<1, 3>>, dm), <<1, 3>>, dm, Null, Null>> : dm \in {<<28, 2>>, <<29, 2>>}}

\* The last folder of the path of a match of the event A with the years y1
\* and y2 crossed.
CrossedFolder(y1, y2) == Names[1] \o <<" ">> \o Fmt4(y1) \o <<"-">> \o Fmt4(y2)

\* The last folder of the path of a result.
LastFolder(r) == getCustomEventPath(r)[Len(getCustomEventPath(r))]

\* C22: the dates of one occurrence of an event go to one folder. A match of
\* a recurring event that crosses the year boundary goes to the folder of the
\* years (y, y + 1) when the date is on or after the start day in its year y,
\* and to the folder of (y - 1, y) when it is on or before the end day; and
\* all the dates that a fixed event matches go to the folder of the date
\* looked up.
C22_OneFolderPerOccurrence ==
    /\ \A c \in CrossingCases \cup YearLongCases :
          (TheRaw = c[1] /\ result.kind = "match") =>
              \E y \in {getFullYear(date)} :
              \E dm \in {<<getDate(date), MonthOf(date)>>} :
                  /\ DMAtMost(c[2], dm) => LastFolder(result) = CrossedFolder(y, y + 1)
                  /\ DMAtMost(dm, c[3]) => LastFolder(result) = CrossedFolder(y - 1, y)
    /\ (result.kind = "match" /\ Matched.fixedRange) =>
          \E e \in {Matched} :
              \A other \in LookupDates :
                  matchEvent(e, other).match =>
                      getCustomEventPath(MatchResult(e, other, matchEvent(e, other).crossedYears))
                          = getCustomEventPath(result)

-----------------------------------------------------------------------------
(* C23 *)

\* C23: no event of the table is of priority tier 6: a recurring event whose
\* start and end both carry a year is a single day.
C23_NoTierSix ==
    \A i \in 1..Len(customEvents) :
        /\ (/\ customEvents[i].recurring
            /\ customEvents[i].start.year # Null
            /\ customEvents[i].end.year # Null) => customEvents[i].singleDay
        /\ Tier(customEvents[i]) # 6
        /\ categorizeEvent(customEvents[i]) # 6

\* C23 witness: the table built from '31.12.2003_2004' holds a recurring
\* event from the year 2003 to the year 2004, a single day of tier 3.
C23_Witness ==
    /\ TheRaw = RecBetween(<<31, 12>>, 2003, 2004)
    /\ Len(customEvents) = 1
    /\ customEvents[1].recurring
    /\ customEvents[1].start.year = 2003
    /\ customEvents[1].end.year = 2004
    /\ customEvents[1].singleDay
    /\ categorizeEvent(customEvents[1]) = 3

-----------------------------------------------------------------------------
(* C24 *)

\* The number of files #walkDir found.
Scanned == Cardinality(walkDir(files0))

\* C24: in a run without an exception each iteration of the loop adds one to
\* exactly one of the counters moved and skipped, to moved when the file has
\* a supported extension and a date in its name and was renamed, to skipped
\* otherwise; so moved + skipped is the number of files processed so far, and
\* the number of scanned files when the loop is over.
C24_MovedPlusSkipped ==
    /\ []((phase \in {"organize", "clean", "done"} /\ outcome # "threw")
            => movedFilesLength + skippedFilesLength = Scanned - Len(allFiles))
    /\ []((phase \in {"clean", "done"} /\ outcome # "threw")
            => movedFilesLength + skippedFilesLength = Scanned)
    /\ [][(phase = "organize" /\ phase' = "organize") =>
            IF outcome' = "moved" /\ KnownFile'
            THEN /\ movedFilesLength' = movedFilesLength + 1
                 /\ skippedFilesLength' = skippedFilesLength
            ELSE /\ movedFilesLength' = movedFilesLength
                 /\ skippedFilesLength' = skippedFilesLength + 1]_vars

\* C24 witness: a run of two scanned files is over without an exception, one
\* file counted as moved and one, whose rename or mkdir failed, as skipped.
C24_Witness ==
    /\ phase = "done"
    /\ outcome # "threw"
    /\ Scanned = 2
    /\ ioErrors = 1
    /\ movedFilesLength = 1
    /\ skippedFilesLength = 1

====
